---- MODULE Spec2Model ----
(***************************************************************************)
(* Brave Search MCP server: the credential context (tools/base.py), the    *)
(* four upstream operations (tools/search.py) and the dispatch and         *)
(* transport layer (server.py).                                            *)
(*                                                                         *)
(* Three specifications are given.                                         *)
(*   Spec     the running server: exchanges on /sse and /mcp that set the  *)
(*            credential context, receive discovery and invocation         *)
(*            messages, answer them with list_tools / call_tool, and       *)
(*            leave through the finally block of their handler.            *)
(*   SpecDispatch                                                          *)
(*            one exchange of the server, with the provider answering in   *)
(*            any of the ways a GET can end.                               *)
(*   SpecOps  the tools package used directly: a caller sets and resets    *)
(*            auth_token_context, resolves the credential and awaits one   *)
(*            of the four brave_* coroutines to completion.                *)
(*                                                                         *)
(* Python values are records [ty, s]: ty is the Python type and s the      *)
(* printed form, so that 0, "0" and None stay different values.            *)
(***************************************************************************)
EXTENDS Integers, Sequences, FiniteSets, TLC

VARIABLES
    env,        \* os.getenv("BRAVE_SEARCH_API_KEY"), fixed at process start
    upstream,   \* how the search provider answers a GET sent to it
    ctxval,     \* auth_token_context as seen in each execution context
    token,      \* the Token returned by auth_token_context.set (its old_value)
    pc,         \* position of each exchange in its handler
    transport,  \* "sse" (handle_sse) or "mcp" (handle_streamable_http)
    hdr,        \* the x-auth-token header of the exchange
    estab,      \* the value last passed to auth_token_context.set and not yet reset
    prev,       \* header of the exchange that ran before in the same context
    exitKind,   \* how the exchange left the protected block
    msg,        \* the protocol message being processed
    reply,      \* what the handler returned for msg
    resolved,   \* SpecOps: the get_auth_token() call just made, if it was the last step
    opcall      \* SpecOps: the brave_* call just awaited, if it was the last step

vars == <<env, upstream, ctxval, token, pc, transport, hdr, estab, prev, exitKind, msg,
          reply, resolved, opcall>>

serverVars == <<pc, transport, hdr, prev, exitKind, msg, reply>>

opsVars == <<resolved, opcall>>

----------------------------------------------------------------------------
(* Python values *)

Str(x) == [ty |-> "str", s |-> x]

Num(x) == [ty |-> "int", s |-> x]

None == [ty |-> "none", s |-> "None"]

\* the ContextVar has no value in this context: get() raises LookupError
Unset == [ty |-> "unset", s |-> ""]

\* get_auth_token() raised RuntimeError
AuthMissing == [ty |-> "raise", s |-> "Authentication token not found in context or environment"]

\* Python truthiness of a value
Truthy(v) ==
    CASE v.ty = "none" -> FALSE
      [] v.ty = "unset" -> FALSE
      [] v.ty = "str" -> v.s # ""
      [] v.ty = "bytes" -> v.s # ""
      [] v.ty = "int" -> v.s # "0"
      [] OTHER -> TRUE

\* Python's  a or b
Or(a, b) == IF Truthy(a) THEN a ELSE b

\* a header value as the ASGI scope holds it
Bytes(x) == [ty |-> "bytes", s |-> x]

\* bytes.decode('utf-8')
decode(v) == [ty |-> "str", s |-> v.s]

\* Python's str(v)
str(v) == [ty |-> "str", s |-> v.s]

----------------------------------------------------------------------------
(* The model's input sets *)

\* the two exchanges (and the execution contexts they run in)
Exch == {"A", "B"}

Tokens == {Str("T1"), Str("T2")}

\* request.headers.get('x-auth-token'): None when the header is absent
Headers == {None} \cup Tokens

\* the environment default is never one of the clients' tokens, so that a
\* resolved token tells where it came from
EnvValues == {None, Str("ENVKEY")}

\* for a direct caller of the tools package the variable may also be set empty
EnvValuesOps == EnvValues \cup {Str("")}

----------------------------------------------------------------------------
(* tools/base.py *)

\* auth_token_context.get() in the execution context e
CtxGet(c, e) == c[e]

\* a single module-level slot: set() writes the value every context sees
CtxSetGlobal(c, e, v) == [x \in DOMAIN c |-> v]

\* auth_token_context.set(v) in the execution context e
CtxSet(c, e, v) == [c EXCEPT ![e] = v]

\* reset written to one storage shared by every context
CtxResetAll(c, e, old) == [x \in DOMAIN c |-> old]

\* reset() that restores nothing
CtxResetNoop(c, e, old) == c

\* auth_token_context.reset(token): the context gets the token's old value back
CtxReset(c, e, old) == [c EXCEPT ![e] = old]

\* environment default wins over the context
get_auth_token_env_first(c, e, ev) ==
    IF Truthy(ev) THEN ev
    ELSE IF CtxGet(c, e) # Unset THEN CtxGet(c, e) ELSE AuthMissing

get_auth_token(c, e, ev) ==
    IF CtxGet(c, e) # Unset
      THEN CtxGet(c, e)
      ELSE IF ~Truthy(ev) THEN AuthMissing ELSE ev

\* the client is the token itself; None when resolution raised
get_brave_client(c, e, ev) ==
    LET t == get_auth_token(c, e, ev)
    IN  IF t.ty = "raise" THEN None ELSE t

----------------------------------------------------------------------------
(* tools/search.py *)

OpNames == {"brave_search", "brave_image_search", "brave_news_search",
            "brave_video_search"}

\* the url each operation sends its GET to
Endpoint(op) ==
    CASE op = "brave_search" -> "https://api.search.brave.com/res/v1/web/search"
      [] op = "brave_image_search" -> "https://api.search.brave.com/res/v1/images/search"
      [] op = "brave_news_search" -> "https://api.search.brave.com/res/v1/news/search"
      [] op = "brave_video_search" -> "https://api.search.brave.com/res/v1/videos/search"

\* the parameters of each operation's signature with their default values
Defaults(op) ==
    CASE op = "brave_search" ->
           [query |-> None, count |-> Num("5"), country |-> None,
            search_lang |-> None, ui_lang |-> None, offset |-> None,
            safesearch |-> None, spellcheck |-> None, freshness |-> None,
            text_decorations |-> None, result_filter |-> None, units |-> None,
            goggles |-> None, extra_snippets |-> None, summary |-> None,
            enable_rich_callback |-> None, x_loc_lat |-> None,
            x_loc_long |-> None, x_loc_timezone |-> None, x_loc_city |-> None,
            x_loc_state |-> None, x_loc_state_name |-> None,
            x_loc_country |-> None, x_loc_postal_code |-> None]
      [] op = "brave_image_search" ->
           [query |-> None, count |-> Num("5"), search_lang |-> None,
            country |-> None, safesearch |-> None, spellcheck |-> None]
      [] op = "brave_news_search" ->
           [query |-> None, count |-> Num("5"), search_lang |-> None,
            ui_lang |-> None, country |-> None, safesearch |-> None,
            offset |-> None, spellcheck |-> None, freshness |-> None,
            extra_snippets |-> None, goggles |-> None]
      [] op = "brave_video_search" ->
           [query |-> None, count |-> Num("5"), safesearch |-> Str("off"),
            search_lang |-> None, ui_lang |-> None, country |-> None,
            offset |-> None, spellcheck |-> None, freshness |-> None]

\* Python's binding of keyword arguments: a keyword not given takes its default
Bind(op, kw) ==
    [k \in DOMAIN Defaults(op) |-> IF k \in DOMAIN kw THEN kw[k] ELSE Defaults(op)[k]]

\* header_list of brave_search: header name and the parameter it carries
header_list ==
    << <<"x-loc-lat", "x_loc_lat">>, <<"x-loc-long", "x_loc_long">>,
       <<"x-loc-timezone", "x_loc_timezone">>, <<"x-loc-city", "x_loc_city">>,
       <<"x-loc-state", "x_loc_state">>,
       <<"x-loc-state-name", "x_loc_state_name">>,
       <<"x-loc-country", "x_loc_country">>,
       <<"x-loc-postal-code", "x_loc_postal_code">> >>

\* param_list of each operation: the optional query parameters, in order
param_list(op) ==
    CASE op = "brave_search" ->
           <<"country", "search_lang", "ui_lang", "offset", "safesearch",
             "spellcheck", "freshness", "text_decorations", "result_filter",
             "units", "goggles", "extra_snippets", "summary",
             "enable_rich_callback">>
      [] op = "brave_image_search" ->
           <<"search_lang", "country", "safesearch", "spellcheck">>
      [] op = "brave_news_search" ->
           <<"search_lang", "ui_lang", "country", "safesearch", "offset",
             "spellcheck", "freshness", "extra_snippets", "goggles">>
      [] op = "brave_video_search" ->
           <<"search_lang", "ui_lang", "country", "offset", "spellcheck",
             "freshness">>

\* for k, v in header_list: if v is not None: headers[k] = str(v)
AddHeaders(headers, b) ==
    LET present == {i \in DOMAIN header_list : b[header_list[i][2]] # None}
        names == {header_list[i][1] : i \in present}
        val(n) == LET i == CHOOSE j \in present : header_list[j][1] = n
                  IN  str(b[header_list[i][2]])
    IN  [n \in names |-> val(n)] @@ headers

\* for k, v in param_list: if v: params[k] = v
AddParamsIfTruthy(params, plist, b) ==
    LET names == {plist[i] : i \in {j \in DOMAIN plist : Truthy(b[plist[j]])}}
    IN  [n \in names |-> b[n]] @@ params

\* for k, v in param_list: if v is not None: params[k] = v
AddParams(params, plist, b) ==
    LET names == {plist[i] : i \in {j \in DOMAIN plist : b[plist[j]] # None}}
    IN  [n \in names |-> b[n]] @@ params

\* the fixed header pair and the credential header
BaseHeaders(tok) ==
    [Accept |-> Str("application/json")]
      @@ ("Accept-Encoding" :> Str("gzip"))
      @@ ("x-subscription-token" :> tok)

\* how the GET can end: a JSON body (the provider's results or the provider's
\* own error report), a failed connection, or a body that is not JSON
HttpOutcomes == {"json_results", "json_provider_error", "connection_error",
                 "not_json"}

\* no try/except: a failed GET or a body that is not JSON raises
HttpGetRaises(outcome, label, query) ==
    IF outcome \in {"json_results", "json_provider_error"}
      THEN [ty |-> "dict", kind |-> "upstream_json", text |-> <<outcome>>]
      ELSE [ty |-> "raise", kind |-> "exception", text |-> <<outcome>>]

\* requests.get(...) followed by response.json(), inside try/except Exception
HttpGet(outcome, label, query) ==
    IF outcome \in {"json_results", "json_provider_error"}
      THEN [ty |-> "dict", kind |-> "upstream_json", text |-> <<outcome>>]
      ELSE [ty |-> "dict", kind |-> "error_dict",
            text |-> <<"Could not complete ", label, " for query: ", query.s>>]

\* {"error": "Missing Brave subscription token"}
MissingToken == [ty |-> "dict", kind |-> "error_dict", text |-> <<"Missing Brave subscription token">>]

\* the location arguments sent as query parameters, with no header for them
brave_search_loc_as_params(kw, c, e, ev, outcome) ==
    LET b == Bind("brave_search", kw)
        headers == BaseHeaders(get_brave_client(c, e, ev))
        locs == [i \in DOMAIN header_list |-> header_list[i][2]]
        params == AddParams([q |-> b.query, count |-> b.count],
                            param_list("brave_search") \o locs, b)
    IN  [result |-> HttpGet(outcome, "Brave search", b.query),
         sent |-> <<[url |-> Endpoint("brave_search"), headers |-> headers,
                     params |-> params]>>]

\* the body of the coroutine brave_search, run to completion in context e
brave_search(kw, c, e, ev, outcome) ==
    LET b == Bind("brave_search", kw)
        headers == AddHeaders(BaseHeaders(get_brave_client(c, e, ev)), b)
        params == AddParams([q |-> b.query, count |-> b.count],
                            param_list("brave_search"), b)
    IN  [result |-> HttpGet(outcome, "Brave search", b.query),
         sent |-> <<[url |-> Endpoint("brave_search"), headers |-> headers,
                     params |-> params]>>]

\* the body of the coroutine brave_image_search
brave_image_search(kw, c, e, ev, outcome) ==
    LET b == Bind("brave_image_search", kw)
        tok == get_brave_client(c, e, ev)
        params == AddParams([q |-> b.query, count |-> b.count],
                            param_list("brave_image_search"), b)
    IN  IF ~Truthy(tok)
          THEN [result |-> MissingToken, sent |-> <<>>]
          ELSE [result |-> HttpGet(outcome, "Brave image search", b.query),
                sent |-> <<[url |-> Endpoint("brave_image_search"),
                            headers |-> BaseHeaders(tok), params |-> params]>>]

\* the body of the coroutine brave_news_search
brave_news_search(kw, c, e, ev, outcome) ==
    LET b == Bind("brave_news_search", kw)
        tok == get_brave_client(c, e, ev)
        params == AddParams([q |-> b.query, count |-> b.count],
                            param_list("brave_news_search"), b)
    IN  IF ~Truthy(tok)
          THEN [result |-> MissingToken, sent |-> <<>>]
          ELSE [result |-> HttpGet(outcome, "Brave news search", b.query),
                sent |-> <<[url |-> Endpoint("brave_news_search"),
                            headers |-> BaseHeaders(tok), params |-> params]>>]

\* the body of the coroutine brave_video_search
brave_video_search(kw, c, e, ev, outcome) ==
    LET b == Bind("brave_video_search", kw)
        tok == get_brave_client(c, e, ev)
        params == AddParams([q |-> b.query, count |-> b.count,
                             safesearch |-> b.safesearch],
                            param_list("brave_video_search"), b)
    IN  IF ~Truthy(tok)
          THEN [result |-> MissingToken, sent |-> <<>>]
          ELSE [result |-> HttpGet(outcome, "Brave video search", b.query),
                sent |-> <<[url |-> Endpoint("brave_video_search"),
                            headers |-> BaseHeaders(tok), params |-> params]>>]

\* awaiting the coroutine of operation op
Await(op, kw, c, e, ev, outcome) ==
    CASE op = "brave_search" -> brave_search(kw, c, e, ev, outcome)
      [] op = "brave_image_search" -> brave_image_search(kw, c, e, ev, outcome)
      [] op = "brave_news_search" -> brave_news_search(kw, c, e, ev, outcome)
      [] op = "brave_video_search" -> brave_video_search(kw, c, e, ev, outcome)

----------------------------------------------------------------------------
(* server.py: discovery and dispatch *)

EmptyArgs == [k \in {} |-> None]

\* the argument mappings a client sends with an invocation
ArgSet == {EmptyArgs, [query |-> Str("cats")]}

ToolNames == OpNames \cup {"nonexistent_tool"}

NoMsg == [kind |-> "none", name |-> "", args |-> EmptyArgs]

Messages ==
    {[kind |-> "list", name |-> "", args |-> EmptyArgs]}
      \cup {[kind |-> "call", name |-> n, args |-> a] : n \in ToolNames, a \in ArgSet}

NoReply == [kind |-> "pending", text |-> <<>>, sent |-> <<>>]

\* a catalog whose last descriptor also requires count
list_tools_extra_required ==
    << [name |-> "brave_search", required |-> <<"query">>],
       [name |-> "brave_image_search", required |-> <<"query">>],
       [name |-> "brave_news_search", required |-> <<"query">>],
       [name |-> "brave_video_search", required |-> <<"query", "count">>] >>

\* the catalog list_tools returns: name and required fields of each descriptor
list_tools ==
    << [name |-> "brave_search", required |-> <<"query">>],
       [name |-> "brave_image_search", required |-> <<"query">>],
       [name |-> "brave_news_search", required |-> <<"query">>],
       [name |-> "brave_video_search", required |-> <<"query">>] >>

\* arguments.get(k)
DictGet(d, k) == IF k \in DOMAIN d THEN d[k] ELSE None

\* str(KeyError(k)): the key's repr
KeyErrorStr(k) == <<"'", k, "'">>

\* calling an async def without awaiting it gives a coroutine object; the
\* body of the function has not run
Coroutine(op, kw) == [ty |-> "coroutine", op |-> op, kw |-> kw]

\* json.dumps(obj, indent=2): a coroutine object is not serializable
json_dumps(obj) ==
    IF obj.ty = "coroutine"
      THEN [raised |-> TRUE,
            text |-> <<"Object of type ", "coroutine", " is not JSON serializable">>]
      ELSE [raised |-> FALSE, text |-> <<"json">> \o <<obj.kind>> \o obj.text]

\* [types.TextContent(type="text", text=t)]; no request went out
TextReply(t) == [kind |-> "content", text |-> t, sent |-> <<>>]

\* the handler fell off its last elif and returned None
NoneReply == [kind |-> "none", text |-> <<>>, sent |-> <<>>]

\* every key of arguments handed on as a keyword, declared or not
call_tool_kwargs_forward_all(name, arguments) ==
    [k \in DOMAIN Defaults(name) \cup DOMAIN arguments |-> DictGet(arguments, k)]

\* the keywords call_tool gives to the brave_* function of tool name: every
\* parameter of the signature, read from arguments (None when not there)
call_tool_kwargs(name, arguments) ==
    [k \in DOMAIN Defaults(name) |-> DictGet(arguments, k)]

\* query read with arguments.get("query") instead of arguments["query"]
call_tool_get_query(name, arguments) ==
    IF name \in OpNames
      THEN LET result == Coroutine(name, [k \in DOMAIN Defaults(name) |->
                                             DictGet(arguments, k)])
               dumped == json_dumps(result)
           IN  IF dumped.raised
                 THEN TextReply(<<"Error: ">> \o dumped.text)
                 ELSE TextReply(dumped.text)
      ELSE NoneReply

\* call_tool: one branch per tool, each calling its brave_* function with
\* query=arguments["query"] and every other keyword from arguments.get, then
\* json.dumps of what the call returned, all inside try/except Exception
call_tool(name, arguments) ==
    IF name \in OpNames
      THEN IF "query" \notin DOMAIN arguments
             THEN TextReply(<<"Error: ">> \o KeyErrorStr("query"))
             ELSE LET result == Coroutine(name, [k \in DOMAIN Defaults(name) |->
                                                    DictGet(arguments, k)])
                      dumped == json_dumps(result)
                  IN  IF dumped.raised
                        THEN TextReply(<<"Error: ">> \o dumped.text)
                        ELSE TextReply(dumped.text)
      ELSE NoneReply

----------------------------------------------------------------------------
(* server.py: the two transports *)

Transports == {"sse", "mcp"}

\* the x-auth-token header as the handler reads it: a str from
\* request.headers on /sse, bytes from scope["headers"] on /mcp
RawHeader(tr, h) == IF tr = "mcp" /\ h # None THEN Bytes(h.s) ELSE h

\* the value handed to auth_token_context.set: auth_token or ""
HandlerCredential(tr, h) ==
    LET raw == RawHeader(tr, h)
        auth_token == IF tr = "mcp" /\ Truthy(raw) THEN decode(raw) ELSE raw
    IN  Or(auth_token, Str(""))

\* how an exchange leaves the protected block of its handler
ExitKinds == {"normal", "error", "peer_closed", "peer_closed_in_flight"}

\* reset only when the block ended without an exception
FinallyResetOnSuccess(c, e, old, kind) ==
    IF kind = "normal" THEN CtxReset(c, e, old) ELSE c

\* finally: auth_token_context.reset(token)
FinallyReset(c, e, old, kind) == CtxReset(c, e, old)

NoResolve == [who |-> "none", value |-> None, estab |-> Unset]

NoCall == [who |-> "none", op |-> "none", kw |-> EmptyArgs, cred |-> None,
           outcome |-> "none",
           result |-> [ty |-> "dict", kind |-> "none", text |-> <<>>],
           sent |-> <<>>]

InitRest ==
    /\ ctxval = [e \in Exch |-> Unset]
    /\ token = [e \in Exch |-> Unset]
    /\ pc = [e \in Exch |-> "Idle"]
    /\ transport = [e \in Exch |-> "none"]
    /\ hdr = [e \in Exch |-> None]
    /\ estab = [e \in Exch |-> Unset]
    /\ prev = [e \in Exch |-> None]
    /\ exitKind = [e \in Exch |-> "none"]
    /\ msg = [e \in Exch |-> NoMsg]
    /\ reply = [e \in Exch |-> NoReply]
    /\ resolved = NoResolve
    /\ opcall = NoCall

\* no step of the server reads upstream; with two exchanges it is held at
\* the provider answering with results
Init == env \in EnvValues /\ upstream = "json_results" /\ InitRest

\* the listener routes a request to handle_sse or handle_streamable_http; the
\* execution context it runs in may have served an earlier, closed exchange
Accept(e, tr, h) ==
    /\ pc[e] \in {"Idle", "Closed"}
    /\ pc' = [pc EXCEPT ![e] = "Connected"]
    /\ transport' = [transport EXCEPT ![e] = tr]
    /\ hdr' = [hdr EXCEPT ![e] = h]
    /\ prev' = [prev EXCEPT ![e] = IF pc[e] = "Closed" THEN hdr[e] ELSE @]
    /\ UNCHANGED <<env, upstream, ctxval, token, estab, exitKind, msg, reply, opsVars>>

\* the handler enters its try block without having set the context
EstablishWithoutSet(e) ==
    /\ pc[e] = "Connected"
    /\ pc' = [pc EXCEPT ![e] = "Established"]
    /\ UNCHANGED <<env, upstream, ctxval, token, estab, transport, hdr, prev,
                   exitKind, msg, reply, opsVars>>

\* the handler reads the header and sets the context, then enters its try block
Establish(e) ==
    /\ pc[e] = "Connected"
    /\ token' = [token EXCEPT ![e] = CtxGet(ctxval, e)]
    /\ ctxval' = CtxSet(ctxval, e, HandlerCredential(transport[e], hdr[e]))
    /\ estab' = [estab EXCEPT ![e] = HandlerCredential(transport[e], hdr[e])]
    /\ pc' = [pc EXCEPT ![e] = "Established"]
    /\ UNCHANGED <<env, upstream, transport, hdr, prev, exitKind, msg, reply, opsVars>>

\* app.run reads one inbound message; a stateless request carries exactly one
Receive(e, m) ==
    /\ pc[e] = "Established"
    /\ transport[e] = "sse" \/ msg[e] = NoMsg
    /\ msg' = [msg EXCEPT ![e] = m]
    /\ reply' = [reply EXCEPT ![e] = NoReply]
    /\ pc' = [pc EXCEPT ![e] = "Handling"]
    /\ UNCHANGED <<env, upstream, ctxval, token, transport, hdr, estab, prev, exitKind, opsVars>>

\* a discovery request is answered by list_tools
HandleListTools(e) ==
    /\ pc[e] = "Handling"
    /\ msg[e].kind = "list"
    /\ reply' = [reply EXCEPT ![e] =
                   [kind |-> "catalog",
                    text |-> [i \in DOMAIN list_tools |-> list_tools[i].name],
                    sent |-> <<>>]]
    /\ pc' = [pc EXCEPT ![e] = "Established"]
    /\ UNCHANGED <<env, upstream, ctxval, token, transport, hdr, estab, prev, exitKind, msg, opsVars>>

\* an invocation request is answered by call_tool
HandleCallTool(e) ==
    /\ pc[e] = "Handling"
    /\ msg[e].kind = "call"
    /\ reply' = [reply EXCEPT ![e] = call_tool(msg[e].name, msg[e].args)]
    /\ pc' = [pc EXCEPT ![e] = "Established"]
    /\ UNCHANGED <<env, upstream, ctxval, token, transport, hdr, estab, prev, exitKind, msg, opsVars>>

\* the protected block ends (the message loop returns, the transport or the
\* protocol run raises, or the peer closes the connection) and the finally
\* block runs
Leave(e, kind) ==
    /\ \/ kind \in {"normal", "peer_closed"} /\ pc[e] = "Established"
       \/ kind = "error" /\ pc[e] \in {"Established", "Handling"}
       \/ kind = "peer_closed_in_flight" /\ pc[e] = "Handling"
    /\ ctxval' = FinallyReset(ctxval, e, token[e], kind)
    /\ estab' = [estab EXCEPT ![e] = Unset]
    /\ exitKind' = [exitKind EXCEPT ![e] = kind]
    /\ msg' = [msg EXCEPT ![e] = NoMsg]
    /\ reply' = [reply EXCEPT ![e] = NoReply]
    /\ pc' = [pc EXCEPT ![e] = "TornDown"]
    /\ UNCHANGED <<env, upstream, token, transport, hdr, prev, opsVars>>

\* the handler returns (or the exception leaves it)
Close(e) ==
    /\ pc[e] = "TornDown"
    /\ pc' = [pc EXCEPT ![e] = "Closed"]
    /\ exitKind' = [exitKind EXCEPT ![e] = "none"]
    /\ UNCHANGED <<env, upstream, ctxval, token, transport, hdr, estab, prev, msg, reply, opsVars>>

Next ==
    \/ \E e \in Exch, tr \in Transports, h \in Headers : Accept(e, tr, h)
    \/ \E e \in Exch : Establish(e)
    \/ \E e \in Exch, m \in Messages : Receive(e, m)
    \/ \E e \in Exch : HandleListTools(e)
    \/ \E e \in Exch : HandleCallTool(e)
    \/ \E e \in Exch, kind \in ExitKinds : Leave(e, kind)
    \/ \E e \in Exch : Close(e)

Spec == Init /\ [][Next]_vars

\* one exchange after the other in a single context, the provider answering
\* in any way
InitDispatch == env \in EnvValues /\ upstream \in HttpOutcomes /\ InitRest

NextDispatch ==
    \/ \E tr \in Transports, h \in Headers : Accept("A", tr, h)
    \/ Establish("A")
    \/ \E m \in Messages : Receive("A", m)
    \/ HandleListTools("A")
    \/ HandleCallTool("A")
    \/ \E kind \in ExitKinds : Leave("A", kind)
    \/ Close("A")

SpecDispatch == InitDispatch /\ [][NextDispatch]_vars

----------------------------------------------------------------------------
(* The tools package used directly *)

\* the values a caller establishes with auth_token_context.set
SetValues == Tokens \cup {Str("")}

\* keyword arguments of a direct call
KwSet == {[query |-> Str("cats")],
          [query |-> Str("cats"), count |-> Num("3")],
          [query |-> Str("cats"), offset |-> Num("0")],
          [query |-> Str("cats"), x_loc_lat |-> Num("0"),
           x_loc_city |-> Str("Paris")],
          [query |-> Str("cats"), country |-> Str("")],
          [query |-> Str("cats"), x_loc_state |-> Str("")]}

\* the argument mappings of a client whose invocation call_tool turns into
\* keyword arguments
ClientArgs == {[query |-> Str("cats")],
               [query |-> Str("cats"), count |-> Num("3")],
               [query |-> Str("spacex"), freshness |-> Str("pd")],
               [query |-> Str("cats"), bogus |-> Str("1")],
               [query |-> Str("cats"), x_loc_city |-> Str("Paris")]}

\* the keywords a caller may give to op: its own choice of keywords, or every
\* keyword of the signature as call_tool passes them
KwFor(op) ==
    {kw \in KwSet : DOMAIN kw \subseteq DOMAIN Defaults(op)}
      \cup {call_tool_kwargs(op, a) : a \in ClientArgs}

InitOps == env \in EnvValuesOps /\ upstream = "json_results" /\ InitRest

\* the event loop's thread is inside requests.get, a synchronous call: no
\* coroutine of the loop runs until the response is there
Blocked == opcall.outcome = "pending"

\* the GET is out and the response has not come yet
InFlight == [ty |-> "dict", kind |-> "in_flight", text |-> <<>>]

\* token = auth_token_context.set(v)
SetCred(e, v) ==
    /\ ~Blocked
    /\ estab[e] = Unset
    /\ token' = [token EXCEPT ![e] = CtxGet(ctxval, e)]
    /\ ctxval' = CtxSet(ctxval, e, v)
    /\ estab' = [estab EXCEPT ![e] = v]
    /\ resolved' = NoResolve
    /\ opcall' = NoCall
    /\ UNCHANGED <<env, upstream, serverVars>>

\* auth_token_context.reset(token)
ResetCred(e) ==
    /\ ~Blocked
    /\ estab[e] # Unset
    /\ ctxval' = CtxReset(ctxval, e, token[e])
    /\ estab' = [estab EXCEPT ![e] = Unset]
    /\ resolved' = NoResolve
    /\ opcall' = NoCall
    /\ UNCHANGED <<env, upstream, token, serverVars>>

\* get_auth_token() called in context e
Resolve(e) ==
    /\ ~Blocked
    /\ resolved' = [who |-> e, value |-> get_auth_token(ctxval, e, env),
                    estab |-> estab[e]]
    /\ opcall' = NoCall
    /\ UNCHANGED <<env, upstream, ctxval, token, estab, serverVars>>

\* await brave_*(**kw) in context e, up to requests.get: the operation has
\* either returned without a request or sent its GET and waits in it
OpStart(e, op, kw) ==
    /\ opcall = NoCall
    /\ LET r == Await(op, kw, ctxval, e, env, "pending")
       IN  opcall' = [who |-> e, op |-> op, kw |-> kw,
                      cred |-> get_auth_token(ctxval, e, env),
                      outcome |-> IF r.sent = <<>> THEN "not_sent" ELSE "pending",
                      result |-> IF r.sent = <<>> THEN r.result ELSE InFlight,
                      sent |-> r.sent]
    /\ resolved' = NoResolve
    /\ UNCHANGED <<env, upstream, ctxval, token, estab, serverVars>>

\* a call brave_*(**kw): a keyword the signature does not have raises
\* TypeError before the body runs
Call(op, kw, c, e, ev, outcome) ==
    IF DOMAIN kw \subseteq DOMAIN Defaults(op)
      THEN Await(op, kw, c, e, ev, outcome)
      ELSE [result |-> [ty |-> "TypeError", kind |-> "type_error",
                        text |-> <<op, "() got an unexpected keyword argument">>],
            sent |-> <<>>]

\* the keywords call_tool takes from the client's arguments, given to
\* brave_* and awaited in context e, up to requests.get
Invoke(e, op, arguments) ==
    /\ opcall = NoCall
    /\ LET kw == call_tool_kwargs(op, arguments)
           r == Call(op, kw, ctxval, e, env, "pending")
       IN  opcall' = [who |-> e, op |-> op, kw |-> kw, args |-> arguments,
                      cred |-> get_auth_token(ctxval, e, env),
                      outcome |-> IF r.sent = <<>> THEN "not_sent" ELSE "pending",
                      result |-> IF r.sent = <<>> THEN r.result ELSE InFlight,
                      sent |-> r.sent]
    /\ resolved' = NoResolve
    /\ UNCHANGED <<env, upstream, ctxval, token, estab, serverVars>>

\* requests.get ends as outcome says and the operation returns
OpFinish(outcome) ==
    /\ Blocked
    /\ opcall' = [opcall EXCEPT
                    !.outcome = outcome,
                    !.result = Await(opcall.op, opcall.kw, ctxval, opcall.who,
                                     env, outcome).result]
    /\ UNCHANGED <<env, upstream, ctxval, token, estab, serverVars, resolved>>

\* the caller takes the result
Return ==
    /\ ~Blocked
    /\ opcall # NoCall \/ resolved # NoResolve
    /\ opcall' = NoCall
    /\ resolved' = NoResolve
    /\ UNCHANGED <<env, upstream, ctxval, token, estab, serverVars>>

NextOps ==
    \/ \E e \in Exch, v \in SetValues : SetCred(e, v)
    \/ \E e \in Exch : ResetCred(e)
    \/ \E e \in Exch : Resolve(e)
    \/ \E e \in Exch, op \in OpNames : \E kw \in KwFor(op) : OpStart(e, op, kw)
    \/ \E e \in Exch, op \in OpNames, a \in ClientArgs : Invoke(e, op, a)
    \/ \E outcome \in HttpOutcomes : OpFinish(outcome)
    \/ Return

SpecOps == InitOps /\ [][NextOps]_vars

----------------------------------------------------------------------------
(* Properties of the server (Spec) and of the tools package (SpecOps) *)

\* the exchange is inside the protected block of its handler
Active(e) == pc[e] \in {"Established", "Handling"}

\* the exchange has an answered invocation of one of the four tools that
\* supplied query
AnsweredKnownCall(e) ==
    /\ pc[e] = "Established"
    /\ msg[e].kind = "call"
    /\ msg[e].name \in OpNames
    /\ "query" \in DOMAIN msg[e].args
    /\ reply[e] # NoReply

\* C1: two exchanges that are active at the same time with distinct
\* x-auth-token values never resolve to each other's credential:
\* get_auth_token in the context of one is never the header of the other.
CredentialIsolation ==
    \A a, b \in Exch :
        (/\ a # b
         /\ Active(a) /\ Active(b)
         /\ hdr[a] \in Tokens /\ hdr[b] \in Tokens
         /\ hdr[a] # hdr[b])
          => get_auth_token(ctxval, a, env) # hdr[b]

\* an SSE session with T1 is handling an invocation while a stateless request
\* with T2 is inside its handler too
CredentialIsolationWitness ==
    /\ pc["A"] = "Handling" /\ msg["A"].kind = "call"
    /\ transport["A"] = "sse" /\ hdr["A"] = Str("T1")
    /\ Active("B") /\ transport["B"] = "mcp" /\ hdr["B"] = Str("T2")

\* C2: whichever way an exchange left the protected block (end of the message
\* loop, an error, the peer closing with or without an invocation in flight),
\* once it is torn down or closed its context no longer holds a credential.
TeardownGuaranteed ==
    \A e \in Exch : pc[e] \in {"TornDown", "Closed"} => ctxval[e] = Unset

\* one exchange was closed by its peer with an invocation in flight, the other
\* left on an error
TeardownGuaranteedWitness ==
    /\ pc["A"] = "TornDown" /\ exitKind["A"] = "peer_closed_in_flight"
    /\ pc["B"] = "TornDown" /\ exitKind["B"] = "error"

\* C3: an exchange opened without the x-auth-token header resolves to the
\* environment default when one is configured and fails with
\* AuthenticationMissing when none is.
HeaderAbsenceDefersToDefault ==
    \A e \in Exch :
        (Active(e) /\ hdr[e] = None)
          => get_auth_token(ctxval, e, env)
               = IF Truthy(env) THEN env ELSE AuthMissing

\* C4: get_auth_token returns the value established with set, whatever the
\* environment holds; with nothing established it returns the environment
\* default, and with neither it fails with AuthenticationMissing.
ResolveContract ==
    resolved.who # "none" =>
        /\ resolved.estab # Unset => resolved.value = resolved.estab
        /\ (resolved.estab = Unset /\ Truthy(env)) => resolved.value = env
        /\ (resolved.estab = Unset /\ ~Truthy(env)) => resolved.value = AuthMissing

\* a resolution made while a credential is established and the environment
\* default exists as well
ResolveContractWitness ==
    /\ resolved.who # "none"
    /\ resolved.estab \in Tokens
    /\ Truthy(env)
    /\ resolved.value = resolved.estab

\* C5: an answered invocation of a known tool with a query, in an exchange
\* opened with token T, has issued an outbound request, and every request it
\* issued carries T as x-subscription-token.
EndToEndCredential ==
    \A e \in Exch :
        (AnsweredKnownCall(e) /\ hdr[e] \in Tokens)
          => /\ Len(reply[e].sent) > 0
             /\ \A i \in DOMAIN reply[e].sent :
                    reply[e].sent[i].headers["x-subscription-token"] = hdr[e]

\* C6: after set and reset the context holds what it held before the set, and
\* an exchange without header that runs where an exchange with token T ran
\* before never resolves to T.
SetClearRoundTrip ==
    \A e \in Exch :
        /\ pc[e] \in {"TornDown", "Closed"} => ctxval[e] = token[e]
        /\ (/\ pc[e] \in {"Connected", "Established", "Handling"}
            /\ hdr[e] = None
            /\ prev[e] \in Tokens)
             => get_auth_token(ctxval, e, env) # prev[e]

\* a stateless request without header is being served where a request with
\* T1 was served before
SetClearRoundTripWitness ==
    /\ pc["A"] = "Handling"
    /\ transport["A"] = "mcp"
    /\ hdr["A"] = None
    /\ prev["A"] = Str("T1")

\* C7: an answered invocation of a name that is not a registered tool is a
\* returned error text that names the tool, and no request went out.
UnknownToolIsNamedError ==
    \A e \in Exch :
        (/\ pc[e] = "Established"
         /\ msg[e].kind = "call"
         /\ msg[e].name \notin OpNames
         /\ reply[e] # NoReply)
          => /\ reply[e].kind = "content"
             /\ \E i \in DOMAIN reply[e].text : reply[e].text[i] = msg[e].name
             /\ reply[e].sent = <<>>

\* C8: an answered invocation of a known tool without query is a returned
\* error text that names the field query; the exchange is still established
\* and no request went out.
MissingQueryIsNamedError ==
    \A e \in Exch :
        (/\ pc[e] = "Established"
         /\ msg[e].kind = "call"
         /\ msg[e].name \in OpNames
         /\ "query" \notin DOMAIN msg[e].args
         /\ reply[e] # NoReply)
          => /\ reply[e].kind = "content"
             /\ Head(reply[e].text) = "Error: "
             /\ \E i \in DOMAIN reply[e].text : reply[e].text[i] = "query"
             /\ reply[e].sent = <<>>

\* the video tool was invoked with no arguments and has been answered
MissingQueryIsNamedErrorWitness ==
    /\ pc["A"] = "Established"
    /\ msg["A"] = [kind |-> "call", name |-> "brave_video_search", args |-> EmptyArgs]
    /\ reply["A"] # NoReply

\* C9: an operation awaited where credential resolution fails returns an
\* error result and issues no request.
NoCredentialNoNetworkCall ==
    (opcall.who # "none" /\ opcall.cred = AuthMissing)
      => /\ opcall.sent = <<>>
         /\ opcall.result.kind = "error_dict"

\* C10: an answered invocation of a known tool with a query and a resolvable
\* credential has issued exactly one GET, to the endpoint of that tool.
ExactlyOneOutboundCall ==
    \A e \in Exch :
        (AnsweredKnownCall(e) /\ (hdr[e] \in Tokens \/ Truthy(env)))
          => /\ Len(reply[e].sent) = 1
             /\ reply[e].sent[1].url = Endpoint(msg[e].name)


\* the provider answers with a JSON body
JsonOutcomes == {"json_results", "json_provider_error"}

\* the exchange's credential can be resolved
Resolvable(e) == hdr[e] \in Tokens \/ Truthy(env)

\* C11: when the provider answers with a JSON body J, an answered invocation
\* of a known tool with a query is textual content that encodes exactly J.
SuccessPassThrough ==
    \A e \in Exch :
        (AnsweredKnownCall(e) /\ Resolvable(e) /\ upstream \in JsonOutcomes)
          => /\ reply[e].kind = "content"
             /\ reply[e].text
                  = json_dumps([ty |-> "dict", kind |-> "upstream_json",
                                text |-> <<upstream>>]).text

\* how each operation names itself in its error payload
OperationName(op) ==
    CASE op = "brave_search" -> "Brave search"
      [] op = "brave_image_search" -> "Brave image search"
      [] op = "brave_news_search" -> "Brave news search"
      [] op = "brave_video_search" -> "Brave video search"

\* the GET of the awaited operation has ended
Finished == opcall.who # "none" /\ opcall.outcome \in HttpOutcomes

\* C12: when the GET fails or its body is not JSON, the operation returns
\* (does not raise) an error payload that holds the operation's name and the
\* original query.
UpstreamFailureIsValue ==
    (Finished /\ opcall.outcome \in {"connection_error", "not_json"})
      => /\ opcall.result.ty = "dict"
         /\ opcall.result.kind = "error_dict"
         /\ \E i \in DOMAIN opcall.result.text :
                opcall.result.text[i] = OperationName(opcall.op)
         /\ \E i \in DOMAIN opcall.result.text :
                opcall.result.text[i] = opcall.kw.query.s

\* the video operation got a body that is not JSON
UpstreamFailureIsValueWitness ==
    /\ Finished
    /\ opcall.op = "brave_video_search"
    /\ opcall.outcome = "not_json"

\* C13: every answered invocation, whatever the tool name, the arguments and
\* the provider's answer, is a returned Tool Result with text in it.
DispatchNeverPropagates ==
    \A e \in Exch :
        (pc[e] = "Established" /\ msg[e].kind = "call" /\ reply[e] # NoReply)
          => /\ reply[e].kind = "content"
             /\ Len(reply[e].text) > 0


\* the caller gave keyword k a value
Supplied(kw, k) == k \in DOMAIN kw /\ kw[k] # None

\* the awaited operation has sent its GET
Sent == opcall.who # "none" /\ opcall.sent # <<>>

\* the parameters every request of the operation carries: the query and the
\* parameters that have a documented default
AlwaysSent(op) ==
    IF op = "brave_video_search" THEN {"q", "count", "safesearch"}
    ELSE {"q", "count"}

\* C14: the query parameters of the outbound request have an entry only for
\* the query, the parameters the caller supplied and the documented defaults;
\* no entry is null, and every supplied query parameter is there with the
\* caller's value.
OmissionInvariant ==
    Sent =>
        LET params == opcall.sent[1].params
            plist == {param_list(opcall.op)[i] : i \in DOMAIN param_list(opcall.op)}
        IN  /\ \A k \in DOMAIN params :
                   /\ params[k] # None
                   /\ k \in AlwaysSent(opcall.op) \/ Supplied(opcall.kw, k)
            /\ \A k \in plist \cup {"count"} :
                   Supplied(opcall.kw, k)
                     => k \in DOMAIN params /\ params[k] = opcall.kw[k]

\* C15: web, image and news search invoked without count send count=5.
DefaultCountFive ==
    (/\ Sent
     /\ opcall.op \in {"brave_search", "brave_image_search", "brave_news_search"}
     /\ ~Supplied(opcall.kw, "count"))
      => opcall.sent[1].params.count = Num("5")

\* C16: video search invoked without count and without safesearch sends
\* count=20 and safesearch="off".
VideoDefaults ==
    (/\ Sent
     /\ opcall.op = "brave_video_search"
     /\ ~Supplied(opcall.kw, "count")
     /\ ~Supplied(opcall.kw, "safesearch"))
      => /\ opcall.sent[1].params.count = Num("20")
         /\ opcall.sent[1].params.safesearch = Str("off")


\* the exchange has an answered discovery request
AnsweredDiscovery(e) ==
    pc[e] = "Established" /\ msg[e].kind = "list" /\ reply[e] # NoReply

\* the state a discovery request must leave alone
DiscoveryFrame ==
    <<env, upstream, ctxval, token, estab, transport, hdr, prev, exitKind,
      resolved, opcall>>

\* C17: every answered discovery request, in any exchange and at any time,
\* holds the same four tools in the same order, each requiring query alone;
\* answering it sends nothing upstream and changes nothing but the reply.
DiscoveryIsPure ==
    /\ [](\A e \in Exch :
             AnsweredDiscovery(e) =>
                 /\ reply[e].kind = "catalog"
                 /\ reply[e].text = <<"brave_search", "brave_image_search",
                                      "brave_news_search", "brave_video_search">>
                 /\ \A i \in DOMAIN list_tools :
                        /\ list_tools[i].name = reply[e].text[i]
                        /\ list_tools[i].required = <<"query">>
                 /\ reply[e].sent = <<>>)
    /\ [][\A e \in Exch :
             (pc[e] = "Handling" /\ msg[e].kind = "list" /\ pc'[e] = "Established")
               => /\ UNCHANGED DiscoveryFrame
                  /\ \A x \in Exch \ {e} : reply'[x] = reply[x] /\ msg'[x] = msg[x]]_vars

\* a streaming session with T1 and a stateless request without header have
\* both had their discovery request answered
DiscoveryIsPureWitness ==
    /\ AnsweredDiscovery("A") /\ transport["A"] = "sse" /\ hdr["A"] = Str("T1")
    /\ AnsweredDiscovery("B") /\ transport["B"] = "mcp" /\ hdr["B"] = None


\* the steps an exchange may take
AllowedSteps ==
    {<<"Idle", "Connected">>, <<"Closed", "Connected">>,
     <<"Connected", "Established">>,
     <<"Established", "Handling">>, <<"Handling", "Established">>,
     <<"Established", "TornDown">>, <<"Handling", "TornDown">>,
     <<"TornDown", "Closed">>}

\* C18: an exchange moves only along Connected -> Established ->
\* (discovery | invocation)* -> TornDown -> Closed. A message is processed
\* only while the context is established, outside the protected block the
\* context holds nothing and no message is held, a torn down exchange can
\* only close, and a stateless exchange processes one operation.
ExchangeStateMachine ==
    /\ [](\A e \in Exch :
             /\ Active(e) => ctxval[e] = HandlerCredential(transport[e], hdr[e])
             /\ ~Active(e) => msg[e] = NoMsg /\ reply[e] = NoReply
             /\ pc[e] \in {"TornDown", "Closed"} => ctxval[e] = Unset)
    /\ [][\A e \in Exch :
             /\ pc'[e] # pc[e] => <<pc[e], pc'[e]>> \in AllowedSteps
             /\ (transport[e] = "mcp" /\ pc[e] = "Established" /\ msg[e] # NoMsg)
                  => pc'[e] # "Handling"]_vars

\* a stateless request is processing its operation while a streaming session
\* has just been torn down
ExchangeStateMachineWitness ==
    /\ pc["A"] = "Handling" /\ transport["A"] = "mcp"
    /\ pc["B"] = "TornDown" /\ transport["B"] = "sse"

\* C19: while one task waits for its GET to the provider, every other task
\* can still take a step.
NonBlockingUpstream ==
    \A e \in Exch :
        (opcall.who = e /\ opcall.outcome = "pending")
          => \A x \in Exch \ {e} :
                 ENABLED (\/ Resolve(x)
                          \/ ResetCred(x)
                          \/ \E v \in SetValues : SetCred(x, v))

\* the eight location arguments of web search and the header each is sent as
LocationArgs ==
    {<<"x_loc_lat", "x-loc-lat">>, <<"x_loc_long", "x-loc-long">>,
     <<"x_loc_timezone", "x-loc-timezone">>, <<"x_loc_city", "x-loc-city">>,
     <<"x_loc_state", "x-loc-state">>,
     <<"x_loc_state_name", "x-loc-state-name">>,
     <<"x_loc_country", "x-loc-country">>,
     <<"x_loc_postal_code", "x-loc-postal-code">>}

DeclaredArgs(op) ==
    CASE op = "brave_search" ->
           {"query", "count", "country", "search_lang", "ui_lang", "offset",
            "safesearch", "spellcheck", "freshness", "text_decorations",
            "result_filter", "units", "goggles", "extra_snippets", "summary",
            "enable_rich_callback"} \cup {pr[1] : pr \in LocationArgs}
      [] op = "brave_image_search" ->
           {"query", "count", "search_lang", "country", "safesearch",
            "spellcheck"}
      [] op = "brave_news_search" ->
           {"query", "count", "search_lang", "ui_lang", "country",
            "safesearch", "offset", "spellcheck", "freshness",
            "extra_snippets", "goggles"}
      [] op = "brave_video_search" ->
           {"query", "count", "safesearch", "search_lang", "ui_lang",
            "country", "offset", "spellcheck", "freshness"}

\* the names a request of the tool may carry: query goes out as q, a location
\* argument of web search as its header
DeclaredParams(op) ==
    ((DeclaredArgs(op) \ {"query"}) \ {pr[1] : pr \in LocationArgs}) \cup {"q"}

DeclaredHeaders(op) ==
    {"Accept", "Accept-Encoding", "x-subscription-token"}
      \cup (IF op = "brave_search" THEN {pr[2] : pr \in LocationArgs} ELSE {})

\* an invocation of a tool was taken from a client's argument mapping
Invoked == opcall.who # "none" /\ "args" \in DOMAIN opcall

\* arguments without the keys the tool does not declare
DeclaredOnly(op, arguments) ==
    [k \in DOMAIN arguments \cap DeclaredArgs(op) |-> arguments[k]]

\* C21: an invocation never fails on an argument key its tool does not
\* declare and goes as if the key were not there; the names of the query
\* parameters and headers of its request come from the tool's table, and an
\* undeclared key is neither a parameter nor a header of it.
UnknownArgumentsDropped ==
    Invoked =>
        LET op == opcall.op
            unknown == DOMAIN opcall.args \ DeclaredArgs(op)
        IN  /\ opcall.result.kind # "type_error"
            /\ opcall.kw = call_tool_kwargs(op, DeclaredOnly(op, opcall.args))
            /\ DOMAIN opcall.kw \cap unknown = {}
            /\ opcall.sent # <<>> =>
                   /\ DOMAIN opcall.sent[1].params \subseteq DeclaredParams(op)
                   /\ DOMAIN opcall.sent[1].headers \subseteq DeclaredHeaders(op)
                   /\ \A k \in unknown :
                          /\ k \notin DOMAIN opcall.sent[1].params
                          /\ k \notin DOMAIN opcall.sent[1].headers
                          /\ \A pr \in LocationArgs :
                                 pr[1] = k => pr[2] \notin DOMAIN opcall.sent[1].headers

\* image search was invoked with a key no tool declares, news search with a
\* location argument only web search declares, and the provider answered
UnknownArgumentsDroppedWitness ==
    /\ Invoked
    /\ opcall.outcome = "json_results"
    /\ opcall.result.kind = "upstream_json"
    /\ \/ opcall.op = "brave_image_search" /\ "bogus" \in DOMAIN opcall.args
       \/ opcall.op = "brave_news_search" /\ "x_loc_city" \in DOMAIN opcall.args


\* C22: while an exchange stays inside its protected block no step, its own
\* or another exchange's, changes its context value or the credential it
\* resolves to; a context value changes only in the set of its own handler
\* on entry and in the reset of its own handler on the way out.
CredentialStable ==
    [][\A e \in Exch :
          /\ (Active(e) /\ pc'[e] \in {"Established", "Handling"})
               => /\ ctxval'[e] = ctxval[e]
                  /\ get_auth_token(ctxval', e, env')
                       = get_auth_token(ctxval, e, env)
          /\ ctxval'[e] # ctxval[e]
               => \/ pc[e] = "Connected" /\ pc'[e] = "Established"
                  \/ Active(e) /\ pc'[e] = "TornDown"]_vars

\* a session with T1 has an answered invocation and still resolves to T1
\* after an exchange with T2 was torn down
CredentialStableWitness ==
    /\ AnsweredKnownCall("A")
    /\ hdr["A"] = Str("T1")
    /\ get_auth_token(ctxval, "A", env) = Str("T1")
    /\ pc["B"] = "TornDown" /\ hdr["B"] = Str("T2")
    /\ exitKind["B"] = "error"


\* Python's falsy values that are not None
Falsy(v) == v \in {Num("0"), Str("")}

\* C23: an optional argument whose value is not None goes out with the
\* request, as its header when it is a location argument and as its query
\* parameter otherwise, also when the value is 0 or the empty string.
PresenceIsNotNone ==
    Sent =>
        \A k \in DOMAIN opcall.kw \ {"query"} :
            opcall.kw[k] # None =>
                IF \E pr \in LocationArgs : pr[1] = k
                  THEN \A pr \in LocationArgs :
                           pr[1] = k
                             => /\ pr[2] \in DOMAIN opcall.sent[1].headers
                                /\ opcall.sent[1].headers[pr[2]].s = opcall.kw[k].s
                  ELSE /\ k \in DOMAIN opcall.sent[1].params
                       /\ opcall.sent[1].params[k] = opcall.kw[k]

\* requests went out with offset = 0, with an empty country and with a
\* latitude of 0 or an empty state as header
PresenceIsNotNoneWitness ==
    /\ Sent
    /\ \/ /\ opcall.op = "brave_news_search"
          /\ Supplied(opcall.kw, "offset") /\ Falsy(opcall.kw.offset)
          /\ opcall.sent[1].params.offset = Num("0")
       \/ /\ opcall.op = "brave_image_search"
          /\ Supplied(opcall.kw, "country") /\ Falsy(opcall.kw.country)
          /\ opcall.sent[1].params.country = Str("")
       \/ /\ opcall.op = "brave_search"
          /\ Supplied(opcall.kw, "x_loc_state") /\ Falsy(opcall.kw.x_loc_state)
          /\ opcall.sent[1].headers["x-loc-state"] = Str("")

====
